---- MODULE Spec2Model ----
(***************************************************************************)
(* lavagna: a collaborative blackboard.                                    *)
(*                                                                         *)
(* Two programs of the repository are modelled.                            *)
(*   - lavagna_pixels (src/lavagna_pixels/src/lib.rs): the winit event     *)
(*     loop that owns the raster buffer (`pixels`), the recorded canvas    *)
(*     size and the frozen sketch kept across suspend / resume.            *)
(*     Specification SpecCanvas.                                           *)
(*   - the bevy application (src/src/drawing.rs, src/src/local_chalk.rs):  *)
(*     the systems that turn pointer input into the pending polyline and   *)
(*     the completed paths.  Specifications Spec and SpecChunk.            *)
(***************************************************************************)
EXTENDS Integers, Sequences, FiniteSets, TLC

(***************************************************************************)
(* Bounds of the model.                                                    *)
(***************************************************************************)
\* widths 1..MaxW and heights 1..MaxH are carried by Resumed / Resized
MaxW == 2
MaxH == 2
\* number of non-zero pixels the redraws leave in the buffer
MaxLit == 1

\* number of frames of a run of the bevy application
MaxTime == 3
\* number of mouse button events delivered within one frame
MaxEvents == 2
\* number of points fed to one stroke by the chunking scenario
MaxFeed == 252
\* number of frames of the chunking scenario in which the pen rests
MaxHolds == 1
\* number of one-point strokes the depth scenario finalizes
MaxPaths == 3
\* the corner scenario takes its points on the grid (0..MaxCoord) x (0..MaxCoord)
MaxCoord == 3

(***************************************************************************)
(* Rust's Option<T>: None is the empty sequence, Some(v) is <<v>>.         *)
(***************************************************************************)
None == << >>
Some(v) == << v >>
IsSome(o) == o /= << >>
Unwrap(o) == o[1]

Min(a, b) == IF a < b THEN a ELSE b

VARIABLES
    \* ---- lavagna_pixels::run ----
    canvas_size,     \* PhysicalSize recorded by the event loop
    pixels,          \* Option<Pixels>: [width, height, frame]
    frozen_sketch,   \* Option<OwnedSketch>: [width, height, frame]
    app_pressed,     \* lavagna_core::App's pressed flag
    control_flow,    \* "Poll" while the loop runs, "Exit" once it is told to stop
    \* ---- history of the event loop (what the last handled event was) ----
    last_event,      \* [kind, size, had_buffer, alloc_ok]
    before_pixels,   \* `pixels` as it was before the last handled event
    before_event,    \* [kind, had_buffer] of the event handled before the last one,
                     \* and the pressed flag as that event left it
    origin_pixels,   \* `pixels` as it was before the last two handled events
    lost_snapshot,   \* Option: the buffer extracted by Suspended, not yet in a new buffer
    surface_size     \* the size carried by the latest Resumed / Resized event

VARIABLES
    \* ---- the bevy application ----
    local_chalk,     \* the LocalChalk resource
    chalk,           \* the Chalk component of the pending entity
    polyline,        \* Polyline.points of the pending entity
    completed,       \* the Completed entities of the world, in spawn order
    commands,        \* the commands queued by the systems of this frame
    clear_events,    \* the ClearEvents the readers see in this frame
    outbox,          \* the clears handed to the peers in this frame
    time,            \* Time: elapsed time, in frames
    phase,           \* "idle" between frames, "update" while the systems run
    ran,             \* the systems that have run in this frame
    \* ---- history ----
    button_log,      \* what update_pressed read in this frame: the cycles closed, the last event
    fed              \* the points appended to the stroke in progress

drawVars == << local_chalk, chalk, polyline, completed, commands, clear_events,
               outbox, time, phase, ran, button_log, fed >>

canvasVars == << canvas_size, pixels, frozen_sketch, app_pressed, control_flow,
                 last_event, before_pixels, before_event, origin_pixels,
                 lost_snapshot, surface_size >>

vars == << canvasVars, drawVars >>

(***************************************************************************)
(* lavagna_pixels                                                          *)
(***************************************************************************)
PixelValues == {0, 255}

PhysicalSize(w, h) == [width |-> w, height |-> h]

Sizes == { PhysicalSize(w, h) : w \in 1..MaxW, h \in 1..MaxH }

\* let mut canvas_size = PhysicalSize::new(640, 480);
InitialCanvasSize == PhysicalSize(640, 480)

\* frame.fill(0x00) on a frame of n pixels
ZeroFrame(n) == [i \in 1..n |-> 0]

\* MutSketch::new(frame, width, height): the frame seen as rows of `width`
MutSketch(frame, width, height) == [frame |-> frame, width |-> width, height |-> height]

\* index of pixel (x, y) in a row-major frame whose rows are `width` long
PixelIndex(width, x, y) == y * width + x + 1

\* the pixel (x, y) of a sketch
SketchPixel(s, x, y) == s.frame[PixelIndex(s.width, x, y)]

\* MutSketch::copy_from: the source is laid at the origin of the target,
\* clipped to the overlap of the two, without scaling
copy_from(new_sketch, old_sketch) ==
    [new_sketch EXCEPT !.frame =
        [i \in 1..Len(new_sketch.frame) |->
            LET x == (i - 1) % new_sketch.width
                y == (i - 1) \div new_sketch.width
            IN  IF x < old_sketch.width /\ y < old_sketch.height
                THEN SketchPixel(old_sketch, x, y)
                ELSE new_sketch.frame[i]]]

\* MutSketch::to_owned: an independent copy of the pixels and the dimensions
to_owned(sketch) == sketch

\* Pixels::new(width, height, surface_texture): Err when the allocation fails
PixelsNew(width, height, alloc_ok) ==
    IF alloc_ok
    THEN Some([width |-> width, height |-> height, frame |-> ZeroFrame(width * height)])
    ELSE None

\* resume that forgets to copy the frozen sketch into the new buffer
resume_no_copy(new_size, frozen, alloc_ok) ==
    PixelsNew(new_size.width, new_size.height, alloc_ok)

\* resume that hands out a buffer without a frame when the allocation fails
resume_partial(new_size, frozen, alloc_ok) ==
    IF alloc_ok
    THEN PixelsNew(new_size.width, new_size.height, TRUE)
    ELSE Some([width |-> new_size.width, height |-> new_size.height, frame |-> << >>])

\* fn resume(window, new_size, frozen_sketch) -> Option<Pixels>
resume(new_size, frozen, alloc_ok) ==
    LET created == PixelsNew(new_size.width, new_size.height, alloc_ok)
    IN  IF ~IsSome(created)
        THEN None                                   \* .ok()?
        ELSE LET p == Unwrap(created)
                 filled == ZeroFrame(Len(p.frame))
                 new_sketch == MutSketch(filled, new_size.width, new_size.height)
                 copied == IF IsSome(frozen)
                           THEN copy_from(new_sketch, Unwrap(frozen))
                           ELSE new_sketch
             IN  Some([p EXCEPT !.frame = copied.frame])

\* fn sketch_from_pixels(pixels, canvas_size) -> Option<OwnedSketch>
sketch_from_pixels(p, size) ==
    IF ~IsSome(p)
    THEN None                                       \* let mut pixels = pixels?;
    ELSE Some(to_owned(MutSketch(Unwrap(p).frame, size.width, size.height)))

\* resize_buffer without the fill(0x00): the resized frame keeps its old bytes
resize_buffer_no_fill(p, size, new_size) ==
    LET old_sketch == to_owned(MutSketch(p.frame, size.width, size.height))
        resized == [i \in 1..(new_size.width * new_size.height) |->
                        IF i <= Len(p.frame) THEN p.frame[i] ELSE 0]
        new_sketch == MutSketch(resized, new_size.width, new_size.height)
    IN  [width |-> new_size.width, height |-> new_size.height,
         frame |-> copy_from(new_sketch, old_sketch).frame]

\* resize_buffer without the copy_from: the resized frame stays blank
resize_buffer_no_copy(p, size, new_size) ==
    [width |-> new_size.width, height |-> new_size.height,
     frame |-> ZeroFrame(new_size.width * new_size.height)]

\* resize_buffer without the Pixels::resize_buffer call: the buffer keeps its size
resize_buffer_no_resize(p, size, new_size) == p

\* fn resize_buffer(pixels, canvas_size, new_size), on the Pixels value p
resize_buffer(p, size, new_size) ==
    LET old_sketch == to_owned(MutSketch(p.frame, size.width, size.height))
        \* fill(0x00), then Pixels::resize_buffer: the frame is all zero at the new length
        resized == ZeroFrame(new_size.width * new_size.height)
        new_sketch == MutSketch(resized, new_size.width, new_size.height)
    IN  [width |-> new_size.width, height |-> new_size.height,
         frame |-> copy_from(new_sketch, old_sketch).frame]

Event(kind, size, had_buffer, alloc_ok) ==
    [kind |-> kind, size |-> size, had_buffer |-> had_buffer, alloc_ok |-> alloc_ok]

InitCanvas ==
    /\ canvas_size = InitialCanvasSize
    /\ pixels = None
    /\ frozen_sketch = None
    /\ app_pressed = FALSE
    /\ control_flow = "Poll"
    /\ last_event = Event("Init", InitialCanvasSize, FALSE, TRUE)
    /\ before_pixels = None
    /\ before_event = [kind |-> "Init", had_buffer |-> FALSE, pressed |-> FALSE]
    /\ origin_pixels = None
    /\ lost_snapshot = None
    /\ surface_size = InitialCanvasSize

\* App::set_pressed(pressed): the pressed flag of the app after the call
set_pressed(value) == value

\* a Resumed arm that leaves the pressed flag as it finds it
resumed_keep_pressed(pressed) == pressed

\* the Resumed arm's app.set_pressed(false), on the flag it finds
resumed_set_pressed(pressed) == set_pressed(FALSE)

\* the history kept of the last two handled events
Remember ==
    /\ before_pixels' = pixels
    /\ before_event' = [kind |-> last_event.kind, had_buffer |-> last_event.had_buffer,
                        pressed |-> app_pressed]
    /\ origin_pixels' = before_pixels

\* the frame data a newly created buffer owes to the last suspension
SnapshotAfterCreate(created) == IF IsSome(created) THEN None ELSE lost_snapshot

\* Event::Resumed
Resumed ==
    /\ control_flow = "Poll"
    /\ UNCHANGED drawVars
    /\ \E inner_size \in Sizes, alloc_ok \in BOOLEAN :
         LET created == resume(inner_size, frozen_sketch, alloc_ok)
         IN  /\ canvas_size' = inner_size
             /\ pixels' = created
             /\ frozen_sketch' = None               \* frozen_sketch.take()
             /\ app_pressed' = resumed_set_pressed(app_pressed)
             /\ last_event' = Event("Resumed", inner_size, IsSome(pixels), alloc_ok)
             /\ lost_snapshot' = SnapshotAfterCreate(created)
             /\ surface_size' = inner_size
    /\ Remember
    /\ UNCHANGED control_flow

\* Event::Suspended
Suspended ==
    /\ control_flow = "Poll"
    /\ UNCHANGED drawVars
    /\ frozen_sketch' = sketch_from_pixels(pixels, canvas_size)
    /\ pixels' = None                               \* pixels.take()
    /\ last_event' = Event("Suspended", canvas_size, IsSome(pixels), TRUE)
    /\ Remember
    /\ lost_snapshot' = IF IsSome(pixels) THEN pixels ELSE lost_snapshot
    /\ UNCHANGED << canvas_size, app_pressed, control_flow, surface_size >>

\* Event::WindowEvent { event: WindowEvent::Resized(new_size), .. }
Resized ==
    /\ control_flow = "Poll"
    /\ UNCHANGED drawVars
    /\ \E new_size \in Sizes, alloc_ok \in BOOLEAN :
         /\ IF IsSome(pixels)
            THEN /\ alloc_ok
                 /\ pixels' = IF canvas_size /= new_size
                              THEN Some(resize_buffer(Unwrap(pixels), canvas_size, new_size))
                              ELSE pixels
                 /\ frozen_sketch' = frozen_sketch
                 /\ lost_snapshot' = lost_snapshot
            ELSE LET taken == sketch_from_pixels(pixels, canvas_size)
                     created == resume(new_size, taken, alloc_ok)
                 IN  /\ pixels' = created
                     /\ frozen_sketch' = None       \* assigned, then frozen_sketch.take()
                     /\ lost_snapshot' = SnapshotAfterCreate(created)
         /\ canvas_size' = new_size
         /\ surface_size' = new_size
         /\ last_event' = Event("Resized", new_size, IsSome(pixels), alloc_ok)
    /\ Remember
    /\ UNCHANGED << app_pressed, control_flow >>

\* the number of non-zero pixels of a frame
Lit(frame) == Cardinality({ i \in 1..Len(frame) : frame[i] /= 0 })

\* Event::RedrawRequested, with a buffer: app.update(sketch) writes a pixel of
\* the sketch that wraps the frame with the recorded canvas size; a failed
\* render stops the loop
RedrawRequested ==
    /\ control_flow = "Poll"
    /\ UNCHANGED drawVars
    /\ IsSome(pixels)
    /\ \E x \in 0..(canvas_size.width - 1), y \in 0..(canvas_size.height - 1),
          v \in PixelValues, render_ok \in BOOLEAN :
         LET p == Unwrap(pixels)
             sketch == MutSketch(p.frame, canvas_size.width, canvas_size.height)
             i == PixelIndex(sketch.width, x, y)
         IN  /\ i \in 1..Len(p.frame)
             /\ p.frame[i] /= v
             /\ v /= 0 => Lit(p.frame) < MaxLit
             /\ pixels' = Some([p EXCEPT !.frame[i] = v])
             /\ control_flow' = IF render_ok THEN "Poll" ELSE "Exit"
    /\ last_event' = Event("RedrawRequested", canvas_size, TRUE, TRUE)
    /\ Remember
    /\ UNCHANGED << canvas_size, frozen_sketch, app_pressed, lost_snapshot, surface_size >>

\* Event::WindowEvent { event: WindowEvent::MouseInput { state, button, .. }, .. },
\* handled only while a buffer exists
MouseInput ==
    /\ control_flow = "Poll"
    /\ UNCHANGED drawVars
    /\ IsSome(pixels)
    /\ \E state \in {"Pressed", "Released"} :
         app_pressed' = set_pressed(state = "Pressed")
    /\ last_event' = Event("MouseInput", canvas_size, TRUE, TRUE)
    /\ Remember
    /\ UNCHANGED << canvas_size, pixels, frozen_sketch, control_flow, lost_snapshot,
                   surface_size >>

\* Event::WindowEvent { event: WindowEvent::CloseRequested, .. }, with a buffer
CloseRequested ==
    /\ control_flow = "Poll"
    /\ UNCHANGED drawVars
    /\ IsSome(pixels)
    /\ control_flow' = "Exit"
    /\ last_event' = Event("CloseRequested", canvas_size, TRUE, TRUE)
    /\ Remember
    /\ UNCHANGED << canvas_size, pixels, frozen_sketch, app_pressed, lost_snapshot,
                   surface_size >>

NextCanvas ==
    \/ Resumed
    \/ Suspended
    \/ Resized
    \/ RedrawRequested
    \/ MouseInput
    \/ CloseRequested

(***************************************************************************)
(* Properties of the canvas buffer lifecycle (SpecCanvas)                  *)
(***************************************************************************)
BufferSize(p) == PhysicalSize(p.width, p.height)

\* the pixel (x, y) of a buffer, by the buffer's own dimensions
BufferPixel(p, x, y) == p.frame[PixelIndex(p.width, x, y)]

\* buffer p shows buffer q at the origin, clipped to the overlap of the two
HoldsAtOrigin(p, q) ==
    \A x \in 0..(Min(p.width, q.width) - 1), y \in 0..(Min(p.height, q.height) - 1) :
        BufferPixel(p, x, y) = BufferPixel(q, x, y)

\* C2: whenever a buffer is created while a snapshot extracted by an earlier
\* Suspended event has not yet been copied into a buffer, the new buffer
\* holds that snapshot at the origin, clipped to the overlap.
C2_CreatedBufferHoldsSnapshot ==
    [][ (IsSome(lost_snapshot) /\ ~IsSome(pixels) /\ IsSome(pixels'))
            => HoldsAtOrigin(Unwrap(pixels'), Unwrap(lost_snapshot)) ]_vars

\* C3: a Suspended event on an Active buffer followed directly by a Resumed
\* event of the same size (whose allocation succeeds) gives a buffer equal,
\* pixel for pixel, to the buffer that existed before the suspension.
C3_SuspendResumeRoundTrip ==
    ( /\ last_event.kind = "Resumed"
      /\ last_event.alloc_ok
      /\ before_event.kind = "Suspended"
      /\ before_event.had_buffer
      /\ last_event.size = BufferSize(Unwrap(origin_pixels)) )
    => pixels = origin_pixels

C3_Witness ==
    /\ last_event.kind = "Resumed"
    /\ before_event.kind = "Suspended"
    /\ before_event.had_buffer
    /\ IsSome(pixels)
    /\ BufferSize(Unwrap(pixels)) = BufferSize(Unwrap(origin_pixels))
    /\ Lit(Unwrap(origin_pixels).frame) > 0

\* C4: after a Resized event on an Active buffer, every pixel inside both the
\* old and the new bounds holds the value it held before, and every pixel of
\* the new buffer outside the old bounds is zero.
C4_ResizeKeepsOverlapZeroOutside ==
    ( /\ last_event.kind = "Resized"
      /\ last_event.had_buffer )
    => /\ IsSome(pixels)
       /\ LET old == Unwrap(before_pixels)
              new == Unwrap(pixels)
          IN  /\ BufferSize(new) = last_event.size
              /\ Len(new.frame) = new.width * new.height
              /\ \A x \in 0..(new.width - 1), y \in 0..(new.height - 1) :
                    BufferPixel(new, x, y) =
                        IF x < old.width /\ y < old.height
                        THEN BufferPixel(old, x, y)
                        ELSE 0

C4_Witness ==
    /\ last_event.kind = "Resized"
    /\ last_event.had_buffer
    /\ IsSome(pixels)
    /\ Unwrap(pixels).width > Unwrap(before_pixels).width
    /\ Unwrap(pixels).height < Unwrap(before_pixels).height
    /\ Lit(Unwrap(pixels).frame) > 0

\* C5: resizing an Active buffer to a size at least as large in both
\* dimensions and then directly back to its first size leaves every pixel as
\* it was before the first resize.
C5_ResizeRoundTrip ==
    ( /\ last_event.kind = "Resized"
      /\ last_event.had_buffer
      /\ before_event.kind = "Resized"
      /\ before_event.had_buffer
      /\ Unwrap(before_pixels).width >= Unwrap(origin_pixels).width
      /\ Unwrap(before_pixels).height >= Unwrap(origin_pixels).height
      /\ last_event.size = BufferSize(Unwrap(origin_pixels)) )
    => pixels = origin_pixels

C5_Witness ==
    /\ last_event.kind = "Resized"
    /\ last_event.had_buffer
    /\ before_event.kind = "Resized"
    /\ before_event.had_buffer
    /\ Unwrap(before_pixels).width > Unwrap(origin_pixels).width
    /\ Unwrap(before_pixels).height > Unwrap(origin_pixels).height
    /\ BufferSize(Unwrap(pixels)) = BufferSize(Unwrap(origin_pixels))
    /\ Lit(Unwrap(pixels).frame) > 0

\* C6: whenever a buffer exists, its width and height (and the length of its
\* frame) are those of the recorded canvas size, and the recorded canvas size
\* is the size carried by the latest Resumed / Resized event.
C6_BufferSizeIsCanvasSize ==
    IsSome(pixels) =>
        /\ BufferSize(Unwrap(pixels)) = canvas_size
        /\ Len(Unwrap(pixels).frame) = canvas_size.width * canvas_size.height
        /\ canvas_size = surface_size

C6_Witness ==
    /\ last_event.kind = "RedrawRequested"
    /\ before_event.kind = "Resized"
    /\ before_event.had_buffer
    /\ BufferSize(Unwrap(origin_pixels)) /= BufferSize(Unwrap(pixels))

C14_ResumedClearsPressed ==
    last_event.kind = "Resumed" => ~app_pressed

C14_Witness ==
    /\ last_event.kind = "Resumed"
    /\ before_event.kind = "MouseInput"
    /\ before_event.pressed
    /\ ~app_pressed

(***************************************************************************)
(* The bevy application: local_chalk.rs and drawing.rs                     *)
(*                                                                         *)
(* The systems are registered without ordering constraints, so within a    *)
(* frame they run in any order.  What they queue in Commands (spawn,       *)
(* despawn) reaches the world when the schedule applies the queues, after  *)
(* all of them have run.  Arithmetic on f32 is modelled exactly.           *)
(***************************************************************************)
\* const POINTS_CHUNK_THRESHOLD: usize = 100;
POINTS_CHUNK_THRESHOLD == 100
\* const MAX_Z: f32 = 500.0;
MAX_Z == 500
\* const MAX_TIME: f32 = 10_000.0;
MAX_TIME == 10000
\* line_width: 8 of LocalChalk::default
DEFAULT_LINE_WIDTH == 8

\* the systems that read or write the chalk, in conflict with one another
ChalkSystems == { "handle_user_input", "update_pressed", "update_chalk", "update" }

\* the readers of ClearEvent touch nothing the chalk systems touch but the
\* command queue, whose spawns and despawns name different entities: their
\* place among the others changes no outcome, and they are run last
Systems == ChalkSystems \cup { "handle_clear_event", "forward_clear_events" }

\* the positions the pointer takes, in world coordinates: three points of a
\* line and one point off it
Positions == { << 0, 0 >>, << 1, 0 >>, << 2, 0 >>, << 1, 1 >> }

\* impl Default for LocalChalk
LocalChalkDefault ==
    [x |-> 0, y |-> 0, pressed |-> FALSE, just_released |-> FALSE, updated |-> FALSE,
     line_width |-> DEFAULT_LINE_WIDTH]

\* fn is_updated(old_chalk, new_chalk) -> bool
is_updated(old_chalk, new_chalk) ==
    \/ old_chalk.x /= new_chalk.x
    \/ old_chalk.y /= new_chalk.y
    \/ old_chalk.pressed /= new_chalk.pressed
    \/ old_chalk.just_released /= new_chalk.just_released

\* Vec2 arithmetic
Sub(p, q) == << p[1] - q[1], p[2] - q[2] >>
Dot(p, q) == p[1] * q[1] + p[2] * q[2]
NormSquared(p) == Dot(p, p)

\* sqrt(m) * a < b, for integers m >= 0, a, b
SqrtTimesLess(m, a, b) ==
    IF a >= 0
    THEN b > 0 /\ m * a * a < b * b
    ELSE b >= 0 \/ m * a * a > b * b

\* a corner check with the sign of the cosine reversed
triggers_lyon_bug_reversed(p0, p1, p2, line_width) ==
    LET ray0 == Sub(p0, p1)
        ray1 == Sub(p2, p1)
        dot == 0 - Dot(ray0, ray1)
        m == NormSquared(ray0) * NormSquared(ray1)
        w2 == line_width * line_width
        Short(ray) == SqrtTimesLess(m, 4 * NormSquared(ray) - w2,
                                    dot * (4 * NormSquared(ray) + w2))
    IN  /\ m /= 0
        /\ (Short(ray0) \/ Short(ray1))

\* a corner check that takes the line width for the stroke radius
triggers_lyon_bug_width(p0, p1, p2, line_width) ==
    LET ray0 == Sub(p0, p1)
        ray1 == Sub(p2, p1)
        dot == Dot(ray0, ray1)
        m == NormSquared(ray0) * NormSquared(ray1)
        w2 == 4 * line_width * line_width
        Short(ray) == SqrtTimesLess(m, 4 * NormSquared(ray) - w2,
                                    dot * (4 * NormSquared(ray) + w2))
    IN  /\ m /= 0
        /\ (Short(ray0) \/ Short(ray1))

\* fn triggers_lyon_bug(points, stroke_radius) -> bool, with points = [p0, p1, p2]
\* and stroke_radius = line_width / 2.  A zero-length ray makes cos_angle NaN,
\* and both comparisons are then false.  Otherwise, with n = |ray0| * |ray1| > 0,
\*     |ray_i|^2 * (1 - cos) / 2 < (cos + 1) / 2 * (line_width / 2)^2
\* is  n * (4 * |ray_i|^2 - line_width^2) < dot * (4 * |ray_i|^2 + line_width^2).
triggers_lyon_bug(p0, p1, p2, line_width) ==
    LET ray0 == Sub(p0, p1)
        ray1 == Sub(p2, p1)
        dot == Dot(ray0, ray1)
        m == NormSquared(ray0) * NormSquared(ray1)
        w2 == line_width * line_width
        Short(ray) == SqrtTimesLess(m, 4 * NormSquared(ray) - w2,
                                    dot * (4 * NormSquared(ray) + w2))
    IN  /\ m /= 0
        /\ (Short(ray0) \/ Short(ray1))

\* fn add_point(polyline, chalk)
add_point(points, c) == Append(points, << c.x, c.y >>)

\* a z_from_time that wraps the elapsed time over a window of MAX_TIME
z_from_time_wrapped(t) == [num |-> (t % MAX_TIME) * MAX_Z, den |-> MAX_TIME]

\* fn z_from_time(time) -> f32: t * (MAX_Z / MAX_TIME), kept as a fraction
z_from_time(t) == [num |-> t * MAX_Z, den |-> MAX_TIME]

\* the bundle complete_pending_path spawns
CompletedPath(points, c, t) ==
    [points |-> points, z |-> z_from_time(t), line_width |-> c.line_width,
     created |-> t]         \* history: the elapsed time of the call

SpawnCommand(path) == [op |-> "spawn", path |-> path, entity |-> 0]
DespawnCommand(entity) == [op |-> "despawn", path |-> << >>, entity |-> entity]

\* fn complete_pending_path(polyline, commands, chalk, time): the state of
\* update's pass s = [points, commands] after the call
complete_pending_path(s, c, t) ==
    [points |-> << >>,
     commands |-> Append(s.commands, SpawnCommand(CompletedPath(s.points, c, t)))]

\* update's loop body without the add_point that reseeds a completed chunk
update_pass_no_reseed(points, queue, c, t) ==
    LET updated == c.pressed /\ c.updated
        s0 == [points |-> points, commands |-> queue]
        n == Len(points)
        split == /\ n >= 2
                 /\ triggers_lyon_bug(points[n - 1], points[n], << c.x, c.y >>,
                                      c.line_width)
        s1 == IF split
              THEN LET done == complete_pending_path(s0, c, t)
                   IN  [done EXCEPT !.points = Append(done.points, points[n])]
              ELSE s0
        s2 == IF updated THEN [s1 EXCEPT !.points = add_point(s1.points, c)] ELSE s1
        chunk_completed == Len(s2.points) >= POINTS_CHUNK_THRESHOLD
        just_released == c.just_released /\ s2.points /= << >>
    IN  IF just_released \/ chunk_completed
        THEN complete_pending_path(s2, c, t)
        ELSE s2

\* update's loop body without the push of start_point after a corner split
update_pass_no_start_point(points, queue, c, t) ==
    LET updated == c.pressed /\ c.updated
        s0 == [points |-> points, commands |-> queue]
        n == Len(points)
        split == /\ n >= 2
                 /\ triggers_lyon_bug(points[n - 1], points[n], << c.x, c.y >>,
                                      c.line_width)
        s1 == IF split THEN complete_pending_path(s0, c, t) ELSE s0
        s2 == IF updated THEN [s1 EXCEPT !.points = add_point(s1.points, c)] ELSE s1
        chunk_completed == Len(s2.points) >= POINTS_CHUNK_THRESHOLD
        just_released == c.just_released /\ s2.points /= << >>
    IN  IF just_released \/ chunk_completed
        THEN LET done == complete_pending_path(s2, c, t)
             IN  IF chunk_completed
                 THEN [done EXCEPT !.points = add_point(done.points, c)]
                 ELSE done
        ELSE s2

\* update's loop body with a just_released that does not look at the buffer
update_pass_release_empty(points, queue, c, t) ==
    LET updated == c.pressed /\ c.updated
        s0 == [points |-> points, commands |-> queue]
        n == Len(points)
        split == /\ n >= 2
                 /\ triggers_lyon_bug(points[n - 1], points[n], << c.x, c.y >>,
                                      c.line_width)
        s1 == IF split
              THEN LET done == complete_pending_path(s0, c, t)
                   IN  [done EXCEPT !.points = Append(done.points, points[n])]
              ELSE s0
        s2 == IF updated THEN [s1 EXCEPT !.points = add_point(s1.points, c)] ELSE s1
        chunk_completed == Len(s2.points) >= POINTS_CHUNK_THRESHOLD
    IN  IF c.just_released \/ chunk_completed
        THEN LET done == complete_pending_path(s2, c, t)
             IN  IF chunk_completed
                 THEN [done EXCEPT !.points = add_point(done.points, c)]
                 ELSE done
        ELSE s2

\* the body of update's loop, for the pending entity: from the points and
\* the command queue before the pass to those after it
update_pass(points, queue, c, t) ==
    LET updated == c.pressed /\ c.updated
        s0 == [points |-> points, commands |-> queue]
        n == Len(points)
        split == /\ n >= 2
                 /\ triggers_lyon_bug(points[n - 1], points[n], << c.x, c.y >>,
                                      c.line_width)
        s1 == IF split
              THEN LET done == complete_pending_path(s0, c, t)
                   IN  [done EXCEPT !.points = Append(done.points, points[n])]
              ELSE s0
        s2 == IF updated THEN [s1 EXCEPT !.points = add_point(s1.points, c)] ELSE s1
        chunk_completed == Len(s2.points) >= POINTS_CHUNK_THRESHOLD
        just_released == c.just_released /\ s2.points /= << >>
        is_completed == just_released \/ chunk_completed
    IN  IF is_completed
        THEN LET done == complete_pending_path(s2, c, t)
             IN  IF chunk_completed
                 THEN [done EXCEPT !.points = add_point(done.points, c)]
                 ELSE done
        ELSE s2

\* fn update(commands, chalk_q, time)
update ==
    /\ phase = "update"
    /\ "update" \notin ran
    /\ LET after == update_pass(polyline, commands, chalk, time)
       IN  /\ polyline' = after.points
           /\ commands' = after.commands
    /\ ran' = ran \cup {"update"}
    /\ UNCHANGED << local_chalk, chalk, completed, clear_events, outbox, time, phase,
                    button_log, fed >>
    /\ UNCHANGED canvasVars

\* fn handle_user_input(window_q, camera_q, chalk); a cursor outside the window
\* leaves the position as it is
handle_user_input ==
    /\ phase = "update"
    /\ "handle_user_input" \notin ran
    /\ \E world_position \in Positions :
         LET prev_chalk == local_chalk
             moved == [prev_chalk EXCEPT !.x = world_position[1], !.y = world_position[2]]
         IN  local_chalk' = [moved EXCEPT !.updated = is_updated(prev_chalk, moved)]
    /\ ran' = ran \cup {"handle_user_input"}
    /\ UNCHANGED << chalk, polyline, completed, commands, clear_events, outbox, time,
                    phase, button_log, fed >>
    /\ UNCHANGED canvasVars

\* the mouse button events of one frame: those of the left button (the
\* match's last arm leaves the chalk as it is for every other event)
MouseEvents == {"Pressed", "Released"}
MouseEventSeqs == UNION { [1..n -> MouseEvents] : n \in 0..MaxEvents }

\* the match of update_pressed's loop, on one event
OnButton(c, event) ==
    IF event = "Pressed"
    THEN [c EXCEPT !.just_released = FALSE, !.pressed = TRUE]
    ELSE IF event = "Released"
         THEN [c EXCEPT !.pressed = FALSE]
         ELSE c

\* the for loop of update_pressed over the events
RECURSIVE ButtonLoop(_, _)
ButtonLoop(c, events) ==
    IF events = << >> THEN c ELSE ButtonLoop(OnButton(c, Head(events)), Tail(events))

\* the press-release cycles the events close: the Released events that find
\* the pen pressed
RECURSIVE CyclesClosed(_, _)
CyclesClosed(is_pressed, events) ==
    IF events = << >>
    THEN 0
    ELSE IF Head(events) = "Released"
         THEN (IF is_pressed THEN 1 ELSE 0) + CyclesClosed(FALSE, Tail(events))
         ELSE CyclesClosed(is_pressed \/ Head(events) = "Pressed", Tail(events))

\* the last event among the events, "None" without one
LastButton(events) == IF events = << >> THEN "None" ELSE events[Len(events)]

\* the body of update_pressed on the events it reads
pressed_after(c, events) ==
    LET was_pressed == c.pressed
        looped == ButtonLoop(c, events)
    IN  [looped EXCEPT !.just_released = was_pressed /\ ~looped.pressed]

\* the log between two runs of update_pressed
NoButtonLog == [cycles |-> 0, last |-> "None"]

\* fn update_pressed(mouse_button_input_events, chalk)
update_pressed ==
    /\ phase = "update"
    /\ "update_pressed" \notin ran
    /\ \E events \in MouseEventSeqs :
         /\ local_chalk' = pressed_after(local_chalk, events)
         /\ button_log' = [cycles |-> CyclesClosed(local_chalk.pressed, events),
                           last |-> LastButton(events)]
    /\ ran' = ran \cup {"update_pressed"}
    /\ UNCHANGED << chalk, polyline, completed, commands, clear_events, outbox, time,
                    phase, fed >>
    /\ UNCHANGED canvasVars

\* fn update_chalk(local_chalk, chalk_q)
update_chalk ==
    /\ phase = "update"
    /\ "update_chalk" \notin ran
    /\ chalk' = local_chalk
    /\ ran' = ran \cup {"update_chalk"}
    /\ UNCHANGED << local_chalk, polyline, completed, commands, clear_events, outbox,
                    time, phase, button_log, fed >>
    /\ UNCHANGED canvasVars

\* ClearEvent::new()
ClearEvent_new == [forward |-> TRUE, issued |-> "new"]
\* ClearEvent::local_only()
ClearEvent_local_only == [forward |-> FALSE, issued |-> "local_only"]
\* a must_be_forwarded that answers true for every clear
must_be_forwarded_always(event) == TRUE
\* ClearEvent::must_be_forwarded(&self)
must_be_forwarded(event) == event.forward

\* the ClearEvents of one frame: none, a clear issued here, a clear of a peer
ClearEventSeqs == { << >>, << ClearEvent_new >>, << ClearEvent_local_only >> }

\* fn despawn_all_completed_lines(commands, lines): one despawn for each
\* Completed entity the query finds in the world
despawn_all_completed_lines(queue, lines) ==
    queue \o [i \in 1..Len(lines) |-> DespawnCommand(i)]

\* fn handle_clear_event(events, lines, commands), on the ClearEvents sent
\* since the last frame
handle_clear_event ==
    /\ phase = "update"
    /\ ran = ChalkSystems
    /\ \E events \in ClearEventSeqs :
         LET clear == Len(events) > 0
         IN  /\ clear_events' = events
             /\ commands' = IF clear
                             THEN despawn_all_completed_lines(commands, completed)
                             ELSE commands
    /\ ran' = ran \cup {"handle_clear_event"}
    /\ UNCHANGED << local_chalk, chalk, polyline, completed, outbox, time, phase,
                    button_log, fed >>
    /\ UNCHANGED canvasVars

\* the events of a sequence that satisfy must_be_forwarded
RECURSIVE ToForward(_)
ToForward(events) ==
    IF events = << >>
    THEN << >>
    ELSE (IF must_be_forwarded(Head(events)) THEN << Head(events) >> ELSE << >>)
         \o ToForward(Tail(events))

\* the transport's reader of ClearEvent: every clear that must be forwarded
\* is handed to the peers once
forward_clear_events ==
    /\ phase = "update"
    /\ ran = ChalkSystems \cup {"handle_clear_event"}
    /\ outbox' = outbox \o ToForward(clear_events)
    /\ ran' = ran \cup {"forward_clear_events"}
    /\ UNCHANGED << local_chalk, chalk, polyline, completed, commands, clear_events,
                    time, phase, button_log, fed >>
    /\ UNCHANGED canvasVars

\* the start of a frame: Time advances
BeginFrame ==
    /\ phase = "idle"
    /\ time < MaxTime
    /\ time' = time + 1
    /\ phase' = "update"
    /\ UNCHANGED << local_chalk, chalk, polyline, completed, commands, clear_events,
                    outbox, ran, button_log, fed >>
    /\ UNCHANGED canvasVars

\* the entities of the world after the queued commands: the despawned ones
\* leave, the spawned ones are added in the order of their commands
RECURSIVE Spawned(_)
Spawned(queue) ==
    IF queue = << >>
    THEN << >>
    ELSE (IF Head(queue).op = "spawn" THEN << Head(queue).path >> ELSE << >>)
         \o Spawned(Tail(queue))

Despawned(queue) == { queue[i].entity : i \in { j \in 1..Len(queue) : queue[j].op = "despawn" } }

RECURSIVE Without(_, _, _)
Without(lines, gone, i) ==
    IF i > Len(lines)
    THEN << >>
    ELSE (IF i \in gone THEN << >> ELSE << lines[i] >>) \o Without(lines, gone, i + 1)

\* the end of the Update schedule: the command queues are applied to the world
apply_deferred ==
    /\ phase = "update"
    /\ ran = Systems
    /\ completed' = Without(completed, Despawned(commands), 1) \o Spawned(commands)
    /\ commands' = << >>
    /\ clear_events' = << >>          \* read by every reader: never seen again
    /\ outbox' = << >>                \* sent
    /\ button_log' = NoButtonLog
    /\ ran' = {}
    /\ phase' = "idle"
    /\ UNCHANGED << local_chalk, chalk, polyline, time, fed >>
    /\ UNCHANGED canvasVars

\* fn startup, and the resources as App::run finds them
InitDrawing ==
    /\ local_chalk = LocalChalkDefault
    /\ chalk = LocalChalkDefault
    /\ polyline = << >>
    /\ completed = << >>
    /\ commands = << >>
    /\ clear_events = << >>
    /\ outbox = << >>
    /\ time = 0
    /\ phase = "idle"
    /\ ran = {}
    /\ button_log = NoButtonLog
    /\ fed = << >>

Next ==
    \/ BeginFrame
    \/ handle_user_input
    \/ update_pressed
    \/ update_chalk
    \/ update
    \/ handle_clear_event
    \/ forward_clear_events
    \/ apply_deferred


(***************************************************************************)
(* One straight stroke fed to update, sample by sample (SpecChunk).        *)
(* ChunkFeed stands for the frame's handle_user_input, update_pressed and  *)
(* update_chalk: it leaves in the Chalk component the sample update reads. *)
(* The pen goes down on the first sample, moves one unit along the x axis  *)
(* on every moving sample, may rest, and is released once.                 *)
(***************************************************************************)
ChunkFeed ==
    /\ phase = "idle"
    /\ ~chalk.just_released
    /\ \/ /\ chalk.pressed \/ fed = << >>                 \* the pen moves, pressed
          /\ Len(fed) < MaxFeed
          /\ chalk' = [chalk EXCEPT !.x = chalk.x + 1, !.pressed = TRUE,
                                    !.updated = TRUE]
          /\ fed' = Append(fed, << chalk.x + 1, chalk.y >>)
       \/ /\ chalk.pressed                                \* the pen rests, pressed
          /\ time - Len(fed) < MaxHolds
          /\ chalk' = [chalk EXCEPT !.updated = FALSE]
          /\ fed' = fed
       \/ /\ chalk.pressed                                \* the pen is released
          /\ chalk' = [chalk EXCEPT !.pressed = FALSE, !.just_released = TRUE,
                                    !.updated = TRUE]
          /\ fed' = fed
    /\ time' = time + 1
    /\ phase' = "update"
    /\ ran' = Systems \ {"update"}
    /\ UNCHANGED << local_chalk, polyline, completed, commands, clear_events, outbox,
                    button_log >>
    /\ UNCHANGED canvasVars

NextChunk ==
    \/ ChunkFeed
    \/ update
    \/ apply_deferred

(***************************************************************************)
(* One-point strokes finalized at growing elapsed times (SpecDepth).       *)
(* DepthFeed stands for a stretch of time with the pen idle and then the   *)
(* systems that leave a sample in the Chalk component: a press at a new    *)
(* position, or the release of that press.                                 *)
(***************************************************************************)
\* the time that goes by before the frame of a sample
TimeSteps == { 1, 3000, 5000 }

DepthFeed ==
    /\ phase = "idle"
    /\ Len(completed) < MaxPaths
    /\ IF chalk.pressed
       THEN chalk' = [chalk EXCEPT !.pressed = FALSE, !.just_released = TRUE,
                                   !.updated = TRUE]
       ELSE chalk' = [chalk EXCEPT !.x = chalk.x + 1, !.pressed = TRUE,
                                   !.just_released = FALSE, !.updated = TRUE]
    /\ \E dt \in TimeSteps : time' = time + dt
    /\ phase' = "update"
    /\ ran' = Systems \ {"update"}
    /\ UNCHANGED << local_chalk, polyline, completed, commands, clear_events, outbox,
                    button_log, fed >>
    /\ UNCHANGED canvasVars

NextDepth ==
    \/ DepthFeed
    \/ update
    \/ apply_deferred

(***************************************************************************)
(* The corner check of one frame (SpecCorner): update runs on a buffer of  *)
(* two points and a pen held down at a candidate point, all of them on a   *)
(* grid, for the line widths incr_size / decr_size reach.                  *)
(***************************************************************************)
Grid == (0..MaxCoord) \X (0..MaxCoord)

\* line widths reached from the default 8 by decr_size: 4, 2, 1
LineWidths == { 1, 2, DEFAULT_LINE_WIDTH }

InitCorner ==
    /\ InitCanvas
    /\ local_chalk = LocalChalkDefault
    /\ \E p0 \in Grid, p1 \in Grid, p2 \in Grid, w \in LineWidths :
         /\ p0 /= p1
         /\ polyline = << p0, p1 >>
         /\ fed = << p0, p1 >>
         /\ chalk = [x |-> p2[1], y |-> p2[2], pressed |-> TRUE,
                     just_released |-> FALSE, updated |-> (p2 /= p1),
                     line_width |-> w]
    /\ completed = << >>
    /\ commands = << >>
    /\ clear_events = << >>
    /\ outbox = << >>
    /\ time = 1
    /\ phase = "update"
    /\ ran = Systems \ {"update"}
    /\ button_log = NoButtonLog

NextCorner ==
    \/ update
    \/ apply_deferred

(***************************************************************************)
(* A stroke in progress, continued sample by sample (SpecSegments).  The   *)
(* buffer holds the points of a straight stroke that has not reached the   *)
(* chunk threshold, and the pen is down at its last point.  SegmentFeed    *)
(* stands for handle_user_input, update_pressed and update_chalk: the      *)
(* pointer stays or moves by one unit, updated tells whether it moved (as  *)
(* handle_user_input computes it), and the pen stays down or is released.  *)
(***************************************************************************)
\* the points (1, 0) .. (n, 0)
Line(n) == [i \in 1..n |-> << i, 0 >>]

\* what the pointer moves by within one frame
Offsets == { << 0, 0 >>, << 1, 0 >>, << 0 - 1, 0 >>, << 0, 1 >> }

InitSegments ==
    /\ InitCanvas
    /\ local_chalk = LocalChalkDefault
    /\ \E n \in 1..(POINTS_CHUNK_THRESHOLD - 1) :
         /\ polyline = Line(n)
         /\ chalk = [LocalChalkDefault EXCEPT !.x = n, !.pressed = TRUE,
                                              !.updated = TRUE]
    /\ completed = << >>
    /\ commands = << >>
    /\ clear_events = << >>
    /\ outbox = << >>
    /\ time = 0
    /\ phase = "idle"
    /\ ran = {}
    /\ button_log = NoButtonLog
    /\ fed = << >>

SegmentFeed ==
    /\ phase = "idle"
    /\ time < MaxTime
    /\ chalk.pressed
    /\ \E offset \in Offsets, is_pressed \in BOOLEAN :
         chalk' = [chalk EXCEPT !.x = chalk.x + offset[1], !.y = chalk.y + offset[2],
                                !.pressed = is_pressed, !.just_released = ~is_pressed,
                                !.updated = (offset /= << 0, 0 >>)]
    /\ time' = time + 1
    /\ phase' = "update"
    /\ ran' = Systems \ {"update"}
    /\ UNCHANGED << local_chalk, polyline, completed, commands, clear_events, outbox,
                    button_log, fed >>
    /\ UNCHANGED canvasVars

NextSegments ==
    \/ SegmentFeed
    \/ update
    \/ apply_deferred

(***************************************************************************)
(* Properties of the bevy application                                      *)
(***************************************************************************)
\* the paths finalized so far: the Completed entities and those queued to spawn
Finalized == completed \o Spawned(commands)

\* update has read the sample of this frame
UpdateDone == phase = "idle" \/ "update" \in ran

\* C1: once 250 points have been appended to a stroke that stays pressed and
\* meets no corner split, exactly 2 paths are finalized, of 100 points each;
\* the release tick finalizes exactly one more, which holds the points
\* appended since the second chunk, from the point that chunk ends with.
C1_Chunking ==
    (Len(fed) = 250 /\ UpdateDone) =>
        /\ Len(Finalized) = IF chalk.pressed THEN 2 ELSE 3
        /\ Len(Finalized[1].points) = 100
        /\ Len(Finalized[2].points) = 100
        /\ Finalized[1].points = SubSeq(fed, 1, 100)
        /\ Finalized[2].points = SubSeq(fed, 100, 199)
        /\ IF chalk.pressed
           THEN polyline = SubSeq(fed, 199, 250)
           ELSE /\ polyline = << >>
                /\ Finalized[3].points = SubSeq(fed, 199, 250)

C1_Witness ==
    /\ Len(fed) = 250
    /\ phase = "idle"
    /\ ~chalk.pressed
    /\ Len(completed) = 3
    /\ Len(completed[3].points) = 52

\* C8: after the frame in which a clear event is handled, no Completed path
\* is left in the world, also when update finalizes a path in that frame.
C8_ClearLeavesNoPath ==
    [][ (phase = "update" /\ phase' = "idle" /\ clear_events /= << >>)
            => completed' = << >> ]_vars

\* the clears of this frame issued by ClearEvent::new()
IssuedNew == { i \in 1..Len(clear_events) : clear_events[i].issued = "new" }

\* C9: once the transport has read the clears of a frame, it has forwarded
\* each clear issued by ClearEvent::new() once, and no clear issued by
\* ClearEvent::local_only().
C9_ForwardOnlyNewClears ==
    "forward_clear_events" \in ran =>
        /\ Len(outbox) = Cardinality(IssuedNew)
        /\ \A i \in 1..Len(outbox) : outbox[i].issued = "new"

C9_Witness ==
    /\ "forward_clear_events" \in ran
    /\ clear_events = << ClearEvent_new >>
    /\ Len(outbox) = 1

\* C10: every press-release cycle closed by the events of a frame makes
\* just_released true in that frame, one frame for one cycle, wherever the
\* Pressed and the Released fall relative to the frames.
C10_EveryCycleJustReleased ==
    "update_pressed" \in ran =>
        button_log.cycles = (IF local_chalk.just_released THEN 1 ELSE 0)

\* depths are fractions over the same denominator
DepthLess(a, b) == a.den = b.den /\ a.num < b.num

\* the later of two paths finalized at different times is the deeper one
DepthOrdered(paths) ==
    \A i, j \in 1..Len(paths) :
        paths[i].created < paths[j].created => DepthLess(paths[i].z, paths[j].z)

C19_DepthInRange ==
    \A i \in 1..Len(Finalized) :
        /\ 0 <= Finalized[i].z.num
        /\ Finalized[i].z.num <= MAX_Z * Finalized[i].z.den

\* the point update takes for the pen: the candidate of the corner check
Candidate == << chalk.x, chalk.y >>

\* three points of one line
Collinear(p0, p1, p2) ==
    (p1[1] - p0[1]) * (p2[2] - p1[2]) = (p1[2] - p0[2]) * (p2[1] - p1[1])

\* the corner check of the frame has split the buffer that held `fed`
CornerSplit == Len(Finalized) = 1 /\ Finalized[1].points = fed
NoCornerSplit == Finalized = << >>

\* C12, as claimed: for collinear points with non-zero segment lengths the
\* corner check is false and update does not split the buffer.
C12_CollinearNeverSplits ==
    (/\ UpdateDone
     /\ Collinear(fed[1], fed[2], Candidate)
     /\ fed[1] /= fed[2] /\ fed[2] /= Candidate)
        => /\ ~triggers_lyon_bug(fed[1], fed[2], Candidate, chalk.line_width)
           /\ NoCornerSplit

\* C12, amended: for collinear points with non-zero segment lengths, the
\* corner check is false and update does not split when the candidate goes
\* on beyond the last point (angle 180 degrees, cosine -1); it is true and
\* update splits when the candidate folds back over the last segment
\* (angle 0, cosine 1).
C12_StraightOnNeverSplits ==
    (/\ UpdateDone
     /\ Collinear(fed[1], fed[2], Candidate)
     /\ fed[1] /= fed[2] /\ fed[2] /= Candidate)
        => IF Dot(Sub(fed[1], fed[2]), Sub(Candidate, fed[2])) < 0
           THEN /\ ~triggers_lyon_bug(fed[1], fed[2], Candidate, chalk.line_width)
                /\ NoCornerSplit
           ELSE /\ triggers_lyon_bug(fed[1], fed[2], Candidate, chalk.line_width)
                /\ CornerSplit

C12_Witness ==
    /\ UpdateDone
    /\ fed = << << 0, 0 >>, << 1, 0 >> >>
    /\ Candidate = << MaxCoord, 0 >>
    /\ polyline = << << 0, 0 >>, << 1, 0 >>, << MaxCoord, 0 >> >>
    /\ NoCornerSplit

\* C13: at a right-angle corner the corner check is false, and update does
\* not split, when both segments are longer than the stroke radius
\* (line_width / 2); it is true, and update splits, when both are shorter.
C13_RightAngle ==
    (/\ UpdateDone
     /\ fed[2] /= Candidate
     /\ Dot(Sub(fed[1], fed[2]), Sub(Candidate, fed[2])) = 0)
        => LET w2 == chalk.line_width * chalk.line_width
               l0 == 4 * NormSquared(Sub(fed[1], fed[2]))
               l1 == 4 * NormSquared(Sub(Candidate, fed[2]))
               triggers == triggers_lyon_bug(fed[1], fed[2], Candidate, chalk.line_width)
           IN  /\ (l0 > w2 /\ l1 > w2) => (~triggers /\ NoCornerSplit)
               /\ (l0 < w2 /\ l1 < w2) => (triggers /\ CornerSplit)

C13_Witness ==
    /\ UpdateDone
    /\ fed = << << 0, 0 >>, << 1, 0 >> >>
    /\ Candidate = << 1, 1 >>
    /\ chalk.line_width = DEFAULT_LINE_WIDTH
    /\ CornerSplit
    /\ polyline = << << 1, 0 >>, << 1, 1 >> >>

\* the paths update has finalized in this frame, then the buffer it leaves
FrameSegments ==
    [i \in 1..Len(Spawned(commands)) |-> Spawned(commands)[i].points]
        \o (IF polyline = << >> THEN << >> ELSE << polyline >>)

\* C15: when update finalizes the buffer of a pen that stays down (corner
\* split, chunk threshold), it leaves a buffer; and every segment of the
\* frame, path or buffer, starts with the point the path before it ends
\* with: on a corner split the buffer is that point, then the candidate.
C15_NoGapBetweenSegments ==
    ("update" \in ran /\ Spawned(commands) /= << >>) =>
        /\ chalk.pressed => polyline /= << >>
        /\ \A i \in 1..(Len(FrameSegments) - 1) :
              /\ FrameSegments[i] /= << >>
              /\ FrameSegments[i + 1][1] = FrameSegments[i][Len(FrameSegments[i])]

C15_Witness ==
    /\ "update" \in ran
    /\ Len(completed) = 1
    /\ Len(completed[1].points) = POINTS_CHUNK_THRESHOLD
    /\ Len(Spawned(commands)) = 1
    /\ Len(polyline) = 2
    /\ polyline[1] = FrameSegments[1][Len(FrameSegments[1])]
    /\ polyline[2] = Candidate

\* update runs in this step
UpdateStep == "update" \notin ran /\ "update" \in ran'

\* C16: whenever update calls the corner check (the buffer holds at least 2
\* points), the last two points of the buffer differ and the candidate
\* differs from the last point of the buffer.
C16_CornerCheckNonDegenerate ==
    [][ (UpdateStep /\ Len(polyline) >= 2) =>
            /\ polyline[Len(polyline) - 1] /= polyline[Len(polyline)]
            /\ Candidate /= polyline[Len(polyline)] ]_vars

\* C17: every path update creates holds at least one point, and an update
\* that finds just_released set and the buffer empty creates no path.
C17_NoEmptyPath ==
    [][ UpdateStep =>
            /\ \A i \in 1..Len(Finalized') : Finalized'[i].points /= << >>
            /\ (chalk.just_released /\ polyline = << >>) => commands' = commands ]_vars

C17_Witness ==
    /\ "update" \in ran
    /\ chalk.just_released
    /\ polyline = << >>
    /\ Finalized = << >>
    /\ time >= 2

\* update_pressed runs in this step
UpdatePressedStep == "update_pressed" \notin ran /\ "update_pressed" \in ran'

\* C18: the updated flag of a frame is true when the pressed state changed
\* in it: a press read by update_pressed, in a frame whose handle_user_input
\* has already run, leaves updated true, with or without pointer movement.
C18_PressSetsUpdated ==
    [][ (/\ UpdatePressedStep
         /\ "handle_user_input" \in ran
         /\ ~local_chalk.pressed
         /\ local_chalk'.pressed) => local_chalk'.updated ]_vars

\* C20: at the end of every update that finds the pen not pressed, the
\* buffer is empty.
C20_PenUpBufferEmpty ==
    [][ (UpdateStep /\ ~chalk.pressed) => polyline' = << >> ]_vars

\* C21: an update that finds just_released set and the buffer non-empty
\* creates exactly one path, whatever the corner check says of the pen
\* position of that frame.
C21_ReleaseCreatesOnePath ==
    [][ (UpdateStep /\ chalk.just_released /\ polyline /= << >>) =>
            Len(Spawned(commands')) = Len(Spawned(commands)) + 1 ]_vars

\* C22: the points of two press-release cycles never share a buffer, hence
\* never a path: in a frame whose button events close a cycle, an update that
\* reads the sample of that frame does not append the pen position to the
\* points the buffer already holds.
C22_StrokesNeverMerge ==
    [][ (/\ UpdateStep
         /\ ChalkSystems \ {"update"} \subseteq ran
         /\ chalk = local_chalk
         /\ button_log.cycles >= 1
         /\ polyline /= << >>)
            => ~(/\ Len(polyline') > Len(polyline)
                 /\ SubSeq(polyline', 1, Len(polyline)) = polyline) ]_vars

Init == InitCanvas /\ InitDrawing

SpecCanvas == Init /\ [][NextCanvas]_vars

Spec == Init /\ [][Next]_vars

SpecChunk == Init /\ [][NextChunk]_vars

SpecDepth == Init /\ [][NextDepth]_vars

SpecCorner == InitCorner /\ [][NextCorner]_vars

SpecSegments == InitSegments /\ [][NextSegments]_vars

====
